---- MODULE Spec2Model ----
(***************************************************************************)
(* One invocation of an IONOS Cloud Ansible module: plugins/modules/volume *)
(* (states present, update, absent) or plugins/modules/postgres_backup_info*)
(* The vendor SDK is an opaque collaborator: every SDK call is logged in   *)
(* `calls` and either returns or raises.  exit_json and fail_json end the  *)
(* invocation (they raise SystemExit, which `except Exception` lets pass). *)
(***************************************************************************)
EXTENDS Integers, Sequences, FiniteSets, TLC

\* ---------------------------------------------------------------- bounds
MaxCount == 3
MaxIds == 2
MaxList == 2

\* ------------------------------------------------------- python values
\* Python's None; parameters are None or strings.
None == "<None>"
\* `not x` for a str-or-None parameter.
Falsy(x) == x = None \/ x = ""
\* A string used as an identity, and an SDK model object: `identity in
\* [resource.id, resource.name]` compares values of both shapes.
Str(s) == [t |-> "str", s |-> s]
Resource(id, name) == [t |-> "obj", id |-> id, name |-> name]
Cluster(id, display_name) == [t |-> "obj", id |-> id, display_name |-> display_name]
Backup(id, cluster_id) == [t |-> "obj", id |-> id, cluster_id |-> cluster_id]
\* x == s for a str s: an SDK model object never equals a str.
PyEq(x, s) == x.t = "str" /\ x.s = s
\* model.to_dict(): the attributes of the model as a dict.
to_dict(o) == [f \in DOMAIN o \ {"t"} |-> o[f]]

\* ------------------------------------------------ module-level constants
STATES == {"present", "absent", "update"}
WaitTimeoutDefault == 600
CountDefault == 1
\* OPTIONS, in declaration order, restricted to the options with 'required'.
RequiredOptions == <<"datacenter", "name">>
Required(option) ==
    IF option = "datacenter" THEN STATES
    ELSE IF option = "name" THEN {"present"}
    ELSE {}
\* get_module_arguments: 'required': True goes to the argument spec only for an
\* option required in every state.
get_module_arguments(option) == Cardinality(Required(option)) = Cardinality(STATES)

\* ------------------------------------------------------ the environment
\* What the API holds, as the SDK's list calls return it.
DatacenterList ==
    << Resource("dc1", "Tardis"), Resource("dc2", "dc3"), Resource("dc3", "Spare") >>
VolumeList ==
    << Resource("v1", "data"), Resource("v2", "data1"),
       Resource("v3", "v4"), Resource("v4", "logs") >>
ServerList ==
    << Resource("s1", "web"), Resource("s2", "s3"), Resource("s3", "db") >>
ClusterList ==
    << Cluster("pg1", "Main"), Cluster("pg2", "pg3"), Cluster("pg3", "Replica") >>
BackupList ==
    << Backup("b1", "pg1"), Backup("b2", "pg2"), Backup("b3", "pg1") >>

\* ---------------------------------------------------------- the inputs
Credentials ==
    { [token |-> None, username |-> None, password |-> None],
      [token |-> "",   username |-> "u",  password |-> ""],
      [token |-> None, username |-> "u",  password |-> "p"],
      [token |-> "t",  username |-> None, password |-> None] }
DatacenterInputs == {None, "", "Tardis", "dc3", "nope"}
ServerInputs == {None, "web", "s3", "ghost"}
NameInputs == {None, "", "data", "v4", "fresh"}
InstanceInputs == {"v1", "data1", "v4", "ghost"}
ClusterInputs == {None, "", "pg1", "Main", "pg3", "nope"}
SeqsUpTo(S, n) == UNION { [1..k -> S] : k \in 0..n }

Params(st, cm, c, dc, sv, nm, ct, ids, w, cluster) ==
    [state |-> st, check_mode |-> cm, token |-> c.token, username |-> c.username,
     password |-> c.password, datacenter |-> dc, server |-> sv, name |-> nm,
     count |-> ct, instance_ids |-> ids, wait |-> w,
     wait_timeout |-> WaitTimeoutDefault, postgres_cluster |-> cluster]
\* An option takes its default in the states it is not 'available' in: server
\* and count outside present, instance_ids in present.
PresentParams ==
    { Params("present", cm, c, dc, sv, nm, ct, << >>, w, None) :
        cm \in BOOLEAN, c \in Credentials, dc \in DatacenterInputs,
        sv \in ServerInputs, nm \in NameInputs, ct \in 0..MaxCount, w \in BOOLEAN }
UpdateParams ==
    { Params("update", cm, c, dc, None, nm, CountDefault, ids, w, None) :
        cm \in BOOLEAN, c \in Credentials, dc \in DatacenterInputs,
        nm \in NameInputs, ids \in SeqsUpTo(InstanceInputs, MaxIds), w \in BOOLEAN }
AbsentParams ==
    { Params("absent", cm, c, dc, None, nm, CountDefault, ids, w, None) :
        cm \in BOOLEAN, c \in Credentials, dc \in DatacenterInputs,
        nm \in {None, "data"}, ids \in SeqsUpTo(InstanceInputs, MaxIds),
        w \in BOOLEAN }
VolumeParams == PresentParams \cup UpdateParams \cup AbsentParams
PostgresParams ==
    { Params("info", cm, c, None, None, None, CountDefault, << >>, TRUE, cluster) :
        cm \in BOOLEAN, c \in Credentials, cluster \in ClusterInputs }

\* --------------------------------------------------- identity resolution
\* The matches collected path by path: those by id, then those by name.
_get_matched_resources_by_path(resource_list, identity, path) ==
    SelectSeq(resource_list, LAMBDA r : PyEq(identity, r.id))
        \o SelectSeq(resource_list, LAMBDA r : PyEq(identity, r[path]))
\* _get_matched_resources: the resources whose id or whose attribute at the
\* second identity path equals the identity, in list order.
_get_matched_resources(resource_list, identity, path) ==
    SelectSeq(resource_list, LAMBDA r : PyEq(identity, r.id) \/ PyEq(identity, r[path]))

NoResource == [t |-> "none"]
\* get_resource with a lenient tie-break: the first of several matches.
get_resource_first(resource_list, identity, path) ==
    LET matched == _get_matched_resources(resource_list, identity, path)
    IN  [fail |-> FALSE, n |-> Len(matched),
         resource |-> IF Len(matched) >= 1 THEN matched[1] ELSE NoResource]
\* get_resource: the single match; fail_json on several; None on none.
get_resource(resource_list, identity, path) ==
    LET matched == _get_matched_resources(resource_list, identity, path)
    IN  [fail |-> Len(matched) > 1, n |-> Len(matched),
         resource |-> IF Len(matched) = 1 THEN matched[1] ELSE NoResource]
\* get_resource_id: the id of get_resource's resource, or None.
get_resource_id(resource_list, identity, path) ==
    LET r == get_resource(resource_list, identity, path)
    IN  [fail |-> r.fail, n |-> r.n,
         id |-> IF r.resource = NoResource THEN None ELSE r.resource.id]

\* -------------------------------------------------------------- messages
MsgMissingArguments == "missing required arguments: datacenter"
MsgCredentials == "Token or username & password are required"
MsgRequired(option) == option \o " parameter is required"
MsgFoundMore == "found more resources"
MsgNoDatacenter == "datacenter could not be found."
MsgInstanceIds == "instance_ids should be a list of volume ids or names, aborting"
MsgRenameMany == "when renaming, instance_ids can only have one id at most"
MsgVolumeNotFound == "Volume not found."
MsgNameExists == "A volume with the name already exists."
MsgCreate == "failed to create the volume"
MsgRemove == "failed to remove the volume"
MsgAttach == "failed to attach volume"
MsgSetState == "failed to set Volume state"
MsgRetrieve == "failed to retrieve Postgres Cluster Backups"

\* ----------------------------------------------------------------- state
VARIABLES
    program,          \* which module runs
    params,           \* module.params and module.check_mode
    pc,               \* the position of the invocation
    calls,            \* the SDK calls issued so far, in order
    lookups,          \* the identity resolutions made so far, in order
    result,           \* what exit_json / fail_json reported
    datacenter_id,    \* create_volume, update_volume, delete_volume
    names,            \* create_volume
    idx,              \* the position of the running for loop
    volumes,          \* create_volume
    instance_ids,     \* create_volume
    changed,
    volume_id,        \* the volume of the running iteration
    server_id,        \* _attach_volume
    created,          \* whether the running iteration went through _create_volume
    create_response,  \* create_volume
    checked_instances \* update_volume

locals == << datacenter_id, names, idx, volumes, instance_ids, changed,
             volume_id, server_id, created, create_response, checked_instances >>
vars == << program, params, pc, calls, lookups, result, locals >>

Running == [status |-> "running", msg |-> "", changed |-> FALSE, action |-> "",
            items |-> << >>, instance_ids |-> << >>, id |-> None]

Init ==
    /\ program \in {"volume", "postgres_backup_info"}
    /\ params \in IF program = "volume" THEN VolumeParams ELSE PostgresParams
    /\ pc = "main"
    /\ calls = << >>
    /\ lookups = << >>
    /\ result = Running
    /\ datacenter_id = None
    /\ names = << >>
    /\ idx = 0
    /\ volumes = << >>
    /\ instance_ids = << >>
    /\ changed = FALSE
    /\ volume_id = None
    /\ server_id = None
    /\ created = FALSE
    /\ create_response = NoResource
    /\ checked_instances = << >>

\* ------------------------------------------------------ ending the module
fail_json(msg) ==
    /\ result' = [result EXCEPT !.status = "failed", !.msg = msg]
    /\ pc' = "done"
exit_json(r) ==
    /\ result' = [status |-> "ok", msg |-> "", changed |-> r.changed,
                  action |-> r.action, items |-> r.items,
                  instance_ids |-> r.instance_ids, id |-> r.id]
    /\ pc' = "done"
\* module.exit_json(changed=True), the check-mode exit of the _*_volume helpers.
CheckModeExit ==
    exit_json([changed |-> TRUE, action |-> "", items |-> << >>,
               instance_ids |-> << >>, id |-> None])

\* ------------------------------------------------------------ SDK calls
Mutating == {"datacenters_volumes_post", "datacenters_volumes_put",
             "datacenters_volumes_delete", "datacenters_servers_volumes_post"}
SdkCall(op, id, about, raised) ==
    [op |-> op, id |-> id, about |-> about,
     timeout |-> IF op = "wait_for_completion" THEN params.wait_timeout ELSE 0,
     raised |-> raised]
Issue(op, id, about, raised) == calls' = Append(calls, SdkCall(op, id, about, raised))
\* A lookup is logged with the number of SDK calls issued before it.
Logged(log, kind, identity, r, at) ==
    Append(log, [kind |-> kind, identity |-> identity, n |-> r.n, at |-> at])
\* The lookup that follows the list call of the same step, and the lookup of a
\* step that issues no call.
Resolve(kind, identity, r) == lookups' = Logged(lookups, kind, identity, r, Len(calls) + 1)
ResolveLocal(kind, identity, r) == lookups' = Logged(lookups, kind, identity, r, Len(calls))

\* --------------------------------------------------- argument checking
\* AnsibleModule(argument_spec=get_module_arguments()): an option the spec marks
\* required and the caller did not supply ends the invocation in the constructor.
MissingArguments(p) ==
    \E i \in 1..Len(RequiredOptions) :
        get_module_arguments(RequiredOptions[i]) /\ p[RequiredOptions[i]] = None

\* The credentials test with `is None` in place of truthiness.
CredentialsMissingNoneOnly(p) ==
    p.token = None /\ ~(p.username # None /\ p.password # None)
\* not token and not (username and password)
CredentialsMissing(p) ==
    Falsy(p.token) /\ ~(~Falsy(p.username) /\ ~Falsy(p.password))

\* The options required in the state and not supplied, in OPTIONS order.
MissingOptions(p) ==
    SelectSeq(RequiredOptions, LAMBDA o : p.state \in Required(o) /\ Falsy(p[o]))
\* The required-options loop testing for None only.
check_required_arguments_none(p) ==
    LET missing == SelectSeq(RequiredOptions,
                             LAMBDA o : p.state \in Required(o) /\ p[o] = None)
    IN  IF CredentialsMissing(p) THEN MsgCredentials
        ELSE IF missing # << >> THEN MsgRequired(missing[1])
        ELSE ""
\* check_required_arguments: the message it fails with, "" when it returns.
check_required_arguments(p) ==
    IF CredentialsMissing(p) THEN MsgCredentials
    ELSE IF MissingOptions(p) # << >> THEN MsgRequired(MissingOptions(p)[1])
    ELSE ""

\* main() of volume.py up to the dispatch on state.
VolumeMain ==
    /\ pc = "main"
    /\ program = "volume"
    /\ IF MissingArguments(params) THEN fail_json(MsgMissingArguments)
       ELSE IF check_required_arguments(params) # ""
            THEN fail_json(check_required_arguments(params))
       ELSE /\ pc' = CASE params.state = "absent" -> "delete_volume"
                       [] params.state = "present" -> "create_volume"
                       [] params.state = "update" -> "update_volume"
            /\ UNCHANGED result
    /\ UNCHANGED << program, params, calls, lookups, locals >>

\* `except Exception` of main(): fail_json('failed to set Volume state ...').
MainExcept == fail_json(MsgSetState)

\* --------------------------------------------------------- state present
\* name % number after lines 465-471; the names drawn hold no conversion
\* specifier, so `name % 0` raises 'not all arguments converted' and the
\* number is appended.
Percent(name, number) == name \o ToString(number)
\* Lines 461-480: count names, enumerated from 1, when count > 1; else the name.
Names(name, count) ==
    IF count > 1 THEN [n \in 1..count |-> Percent(name, n)] ELSE << name >>

\* create_volume, lines 446-480: datacenters_get and the datacenter's lookup.
CreateVolume ==
    /\ pc = "create_volume"
    /\ \/ /\ Issue("datacenters_get", None, params.datacenter, TRUE)
          /\ MainExcept
          /\ UNCHANGED << lookups, locals >>
       \/ /\ Issue("datacenters_get", None, params.datacenter, FALSE)
          /\ LET r == get_resource_id(DatacenterList, Str(params.datacenter), "name")
             IN  /\ Resolve("datacenter", params.datacenter, r)
                 /\ IF r.fail THEN fail_json(MsgFoundMore) /\ UNCHANGED locals
                    ELSE IF r.id = None
                         THEN fail_json(MsgNoDatacenter) /\ UNCHANGED locals
                    ELSE /\ datacenter_id' = r.id
                         /\ names' = Names(params.name, params.count)
                         /\ pc' = "create_volumes_get"
                         /\ UNCHANGED << result, idx, volumes, instance_ids, changed,
                                         volume_id, server_id, created,
                                         create_response, checked_instances >>
    /\ UNCHANGED << program, params >>

\* create_volume, lines 482-488: the prefetch of the datacenter's volumes.
CreateVolumesGet ==
    /\ pc = "create_volumes_get"
    /\ \/ /\ Issue("datacenters_volumes_get", datacenter_id, params.datacenter, TRUE)
          /\ MainExcept
          /\ UNCHANGED idx
       \/ /\ Issue("datacenters_volumes_get", datacenter_id, params.datacenter, FALSE)
          /\ idx' = 1
          /\ pc' = "create_loop"
          /\ UNCHANGED result
    /\ UNCHANGED << program, params, lookups, datacenter_id, names, volumes,
                    instance_ids, changed, volume_id, server_id, created,
                    create_response, checked_instances >>

\* _create_volume, lines 352-353.
CreateGuard == params.check_mode

\* create_volume, lines 489-510: the head of `for name in names` up to the first
\* SDK call of the iteration, and the result when the names are exhausted.
CreateLoop ==
    /\ pc = "create_loop"
    /\ IF idx > Len(names)
       THEN /\ exit_json([changed |-> changed, action |-> "create",
                          items |-> [i \in 1..Len(volumes) |-> to_dict(volumes[i])],
                          instance_ids |-> instance_ids, id |-> None])
            /\ UNCHANGED << lookups, volume_id, created >>
       ELSE LET r == get_resource_id(VolumeList, Str(names[idx]), "name")
            IN  /\ ResolveLocal("volume_name", names[idx], r)
                /\ IF r.fail THEN fail_json(MsgFoundMore) /\ UNCHANGED << volume_id, created >>
                   ELSE IF r.id # None
                        THEN /\ volume_id' = r.id
                             /\ created' = FALSE
                             /\ pc' = "find_by_id"
                             /\ UNCHANGED result
                   ELSE IF CreateGuard
                        THEN CheckModeExit /\ UNCHANGED << volume_id, created >>
                   ELSE /\ created' = TRUE
                        /\ pc' = "volumes_post"
                        /\ UNCHANGED << result, volume_id >>
    /\ UNCHANGED << program, params, calls, datacenter_id, names, idx, volumes,
                    instance_ids, changed, server_id, create_response,
                    checked_instances >>

\* create_volume, lines 499-500: changed = True after a creation, and
\* volumes.append(create_response); then the next name.
EndIteration(response) ==
    /\ changed' = (changed \/ created)
    /\ volumes' = Append(volumes, response)
    /\ idx' = idx + 1
    /\ pc' = "create_loop"

\* _attach_volume, line 636: `if server:`.
AttachWanted == ~Falsy(params.server)

\* create_volume, lines 493-494 and 497-498: instance_ids.append(id), then
\* _attach_volume, which is a no-op without a server.
AppendAndAttach(response) ==
    /\ instance_ids' = Append(instance_ids, response.id)
    /\ create_response' = response
    /\ volume_id' = response.id
    /\ IF AttachWanted
       THEN pc' = "servers_get" /\ UNCHANGED << changed, volumes, idx >>
       ELSE EndIteration(response)

\* create_volume, line 492: datacenters_volumes_find_by_id of the existing volume.
FindById ==
    /\ pc = "find_by_id"
    /\ \/ /\ Issue("datacenters_volumes_find_by_id", volume_id, names[idx], TRUE)
          /\ MainExcept
          /\ UNCHANGED << idx, volumes, instance_ids, changed, volume_id,
                          create_response >>
       \/ /\ Issue("datacenters_volumes_find_by_id", volume_id, names[idx], FALSE)
          /\ AppendAndAttach(CHOOSE v \in {VolumeList[i] : i \in 1..Len(VolumeList)} :
                                 v.id = volume_id)
          /\ UNCHANGED result
    /\ UNCHANGED << program, params, lookups, datacenter_id, names, server_id,
                    created, checked_instances >>

\* _create_volume, lines 381-382.
CreateExcept == fail_json(MsgCreate)

\* _create_volume, line 375: `if wait:`.
WaitWanted == params.wait

\* _create_volume, lines 355-373: the POST of the new volume.
VolumesPost ==
    /\ pc = "volumes_post"
    /\ \/ /\ Issue("datacenters_volumes_post", None, names[idx], TRUE)
          /\ CreateExcept
          /\ UNCHANGED << idx, volumes, instance_ids, changed, volume_id,
                          create_response >>
       \/ /\ Issue("datacenters_volumes_post", None, names[idx], FALSE)
          /\ LET response == Resource("new" \o ToString(idx), names[idx])
             IN  IF WaitWanted
                 THEN /\ create_response' = response
                      /\ pc' = "create_wait"
                      /\ UNCHANGED << idx, volumes, instance_ids, changed, volume_id >>
                 ELSE AppendAndAttach(response)
          /\ UNCHANGED result
    /\ UNCHANGED << program, params, lookups, datacenter_id, names, server_id,
                    created, checked_instances >>

\* _create_volume, lines 375-379: _get_request_id of the Location header, which
\* raises when the header names no request, then wait_for_completion.
CreateWait ==
    /\ pc = "create_wait"
    /\ \/ /\ CreateExcept
          /\ UNCHANGED << calls, idx, volumes, instance_ids, changed, volume_id,
                          create_response >>
       \/ /\ Issue("wait_for_completion", None, names[idx], TRUE)
          /\ CreateExcept
          /\ UNCHANGED << idx, volumes, instance_ids, changed, volume_id,
                          create_response >>
       \/ /\ Issue("wait_for_completion", None, names[idx], FALSE)
          /\ AppendAndAttach(create_response)
          /\ UNCHANGED result
    /\ UNCHANGED << program, params, lookups, datacenter_id, names, server_id,
                    created, checked_instances >>

\* _attach_volume, lines 637-638: datacenters_servers_get and the server's lookup.
ServersGet ==
    /\ pc = "servers_get"
    /\ \/ /\ Issue("datacenters_servers_get", datacenter_id, params.server, TRUE)
          /\ MainExcept
          /\ UNCHANGED << lookups, server_id >>
       \/ /\ Issue("datacenters_servers_get", datacenter_id, params.server, FALSE)
          /\ LET r == get_resource_id(ServerList, Str(params.server), "name")
             IN  /\ Resolve("server", params.server, r)
                 /\ IF r.fail THEN fail_json(MsgFoundMore) /\ UNCHANGED server_id
                    ELSE /\ server_id' = r.id
                         /\ pc' = "servers_volumes_post"
                         /\ UNCHANGED result
    /\ UNCHANGED << program, params, datacenter_id, names, idx, volumes,
                    instance_ids, changed, volume_id, created, create_response,
                    checked_instances >>

\* _attach_volume's `except Exception` swallowing the error.
AttachExceptPass == EndIteration(create_response) /\ UNCHANGED result
\* _attach_volume, lines 644-645.
AttachExcept ==
    fail_json(MsgAttach) /\ UNCHANGED << changed, volumes, idx >>

\* _attach_volume, lines 640-643: the POST attaching the volume to the server.
ServersVolumesPost ==
    /\ pc = "servers_volumes_post"
    /\ \/ /\ Issue("datacenters_servers_volumes_post", server_id, params.server, TRUE)
          /\ AttachExcept
       \/ /\ Issue("datacenters_servers_volumes_post", server_id, params.server, FALSE)
          /\ EndIteration(create_response)
          /\ UNCHANGED result
    /\ UNCHANGED << program, params, lookups, datacenter_id, names, instance_ids,
                    volume_id, server_id, created, create_response,
                    checked_instances >>

\* ---------------------------------------------------------- state update
\* update_volume, lines 532-537: the test of instance_ids, "" when it passes.
UpdateArguments(p) ==
    IF p.name = None
    THEN IF Len(p.instance_ids) < 1 THEN MsgInstanceIds ELSE ""
    ELSE IF Len(p.instance_ids) > 1 THEN MsgRenameMany ELSE ""

\* update_volume, lines 525-544: the test of instance_ids, datacenters_get and
\* the datacenter's lookup.
UpdateVolume ==
    /\ pc = "update_volume"
    /\ \/ /\ UpdateArguments(params) # ""
          /\ fail_json(UpdateArguments(params))
          /\ UNCHANGED << calls, lookups, datacenter_id >>
       \/ /\ UpdateArguments(params) = ""
          /\ Issue("datacenters_get", None, params.datacenter, TRUE)
          /\ MainExcept
          /\ UNCHANGED << lookups, datacenter_id >>
       \/ /\ UpdateArguments(params) = ""
          /\ Issue("datacenters_get", None, params.datacenter, FALSE)
          /\ LET r == get_resource_id(DatacenterList, Str(params.datacenter), "name")
             IN  /\ Resolve("datacenter", params.datacenter, r)
                 /\ IF r.fail THEN fail_json(MsgFoundMore) /\ UNCHANGED datacenter_id
                    ELSE IF r.id = None
                         THEN fail_json(MsgNoDatacenter) /\ UNCHANGED datacenter_id
                    ELSE /\ datacenter_id' = r.id
                         /\ pc' = "update_volumes_get"
                         /\ UNCHANGED result
    /\ UNCHANGED << program, params, names, idx, volumes, instance_ids, changed,
                    volume_id, server_id, created, create_response,
                    checked_instances >>

\* update_volume, lines 550-554: the lookups of `for instance in instance_ids`,
\* which stops at the first instance that is ambiguous or not found.
InstanceLookups(ids) == [i \in 1..Len(ids) |-> get_resource(VolumeList, Str(ids[i]), "name")]
Stops(r) == r.fail \/ r.resource = NoResource
\* How many instances the loop looks up: up to and including the first that stops.
LookedUp(ids) ==
    LET rs == InstanceLookups(ids)
        bad == { i \in 1..Len(ids) : Stops(rs[i]) }
    IN  IF bad = {} THEN Len(ids) ELSE CHOOSE i \in bad : \A j \in bad : i <= j

RECURSIVE LogInstances(_, _, _, _)
LogInstances(log, ids, i, n) ==
    IF i > n THEN log
    ELSE LogInstances(Logged(log, "instance", ids[i], InstanceLookups(ids)[i], Len(calls) + 1),
                      ids, i + 1, n)

\* update_volume, lines 546-556: the volumes' prefetch and the early check of
\* every instance.
UpdateVolumesGet ==
    /\ pc = "update_volumes_get"
    /\ \/ /\ Issue("datacenters_volumes_get", datacenter_id, params.datacenter, TRUE)
          /\ MainExcept
          /\ UNCHANGED << lookups, idx, checked_instances >>
       \/ /\ Issue("datacenters_volumes_get", datacenter_id, params.datacenter, FALSE)
          /\ LET ids == params.instance_ids
                 rs == InstanceLookups(ids)
                 n == LookedUp(ids)
             IN  /\ lookups' = LogInstances(lookups, ids, 1, n)
                 /\ IF n > 0 /\ rs[n].fail
                    THEN fail_json(MsgFoundMore) /\ UNCHANGED << idx, checked_instances >>
                    ELSE IF n > 0 /\ rs[n].resource = NoResource
                         THEN fail_json(MsgVolumeNotFound)
                              /\ UNCHANGED << idx, checked_instances >>
                    ELSE /\ checked_instances' = [i \in 1..Len(ids) |-> rs[i].resource]
                         /\ idx' = 1
                         /\ pc' = "update_loop"
                         /\ UNCHANGED result
    /\ UNCHANGED << program, params, datacenter_id, names, volumes, instance_ids,
                    changed, volume_id, server_id, created, create_response >>

\* update_volume, line 562: get_resource(module, volume_list, instance), where
\* `instance` is the Volume object kept in checked_instances, not an identity
\* string.
UpdateTarget(instance) == get_resource(VolumeList, instance, "name")

\* update_volume, lines 557-575: `for instance in checked_instances` up to the
\* call of _update_volume, and the result when the instances are exhausted.
\* _update_volume (lines 385-422) is entered from position "update_put".
UpdateLoop ==
    /\ pc = "update_loop"
    /\ IF idx > Len(checked_instances)
       THEN /\ exit_json([changed |-> changed, action |-> "update",
                          items |-> [i \in 1..Len(volumes) |-> to_dict(volumes[i])],
                          instance_ids |-> << >>, id |-> None])
            /\ UNCHANGED << lookups, idx, volume_id >>
       ELSE LET instance == checked_instances[idx]
                byname == get_resource_id(VolumeList, Str(params.name), "name")
                log1 == IF params.name = None THEN lookups
                        ELSE Logged(lookups, "new_name", params.name, byname, Len(calls))
                target == UpdateTarget(instance)
            IN  IF params.name # None /\ byname.fail
                THEN /\ lookups' = log1
                     /\ fail_json(MsgFoundMore)
                     /\ UNCHANGED << idx, volume_id >>
                ELSE IF params.name # None /\ byname.id # None
                THEN /\ lookups' = log1
                     /\ fail_json(MsgNameExists)
                     /\ UNCHANGED << idx, volume_id >>
                ELSE /\ lookups' = Logged(log1, "checked_instance", instance.id, target, Len(calls))
                     /\ IF target.resource # NoResource
                        THEN /\ volume_id' = target.resource.id
                             /\ pc' = "update_put"
                             /\ UNCHANGED idx
                        ELSE /\ idx' = idx + 1
                             /\ pc' = "update_loop"
                             /\ UNCHANGED volume_id
                     /\ UNCHANGED result
    /\ UNCHANGED << program, params, calls, datacenter_id, names, volumes,
                    instance_ids, changed, server_id, created, create_response,
                    checked_instances >>

\* ---------------------------------------------------------- state absent
\* delete_volume, lines 591-602: the test of instance_ids, datacenters_get and
\* the datacenter's lookup, whose None is not tested.
DeleteVolume ==
    /\ pc = "delete_volume"
    /\ \/ /\ Len(params.instance_ids) < 1
          /\ fail_json(MsgInstanceIds)
          /\ UNCHANGED << calls, lookups, datacenter_id >>
       \/ /\ Len(params.instance_ids) >= 1
          /\ Issue("datacenters_get", None, params.datacenter, TRUE)
          /\ MainExcept
          /\ UNCHANGED << lookups, datacenter_id >>
       \/ /\ Len(params.instance_ids) >= 1
          /\ Issue("datacenters_get", None, params.datacenter, FALSE)
          /\ LET r == get_resource_id(DatacenterList, Str(params.datacenter), "name")
             IN  /\ Resolve("datacenter", params.datacenter, r)
                 /\ IF r.fail THEN fail_json(MsgFoundMore) /\ UNCHANGED datacenter_id
                    ELSE /\ datacenter_id' = r.id
                         /\ pc' = "delete_volumes_get"
                         /\ UNCHANGED result
    /\ UNCHANGED << program, params, names, idx, volumes, instance_ids, changed,
                    volume_id, server_id, created, create_response,
                    checked_instances >>

\* delete_volume, lines 604-607: the datacenter's volumes.
DeleteVolumesGet ==
    /\ pc = "delete_volumes_get"
    /\ \/ /\ Issue("datacenters_volumes_get", datacenter_id, params.datacenter, TRUE)
          /\ MainExcept
          /\ UNCHANGED idx
       \/ /\ Issue("datacenters_volumes_get", datacenter_id, params.datacenter, FALSE)
          /\ idx' = 1
          /\ pc' = "delete_loop"
          /\ UNCHANGED result
    /\ UNCHANGED << program, params, lookups, datacenter_id, names, volumes,
                    instance_ids, changed, volume_id, server_id, created,
                    create_response, checked_instances >>

\* _delete_volume, lines 426-427.
DeleteGuard == params.check_mode

\* delete_volume, lines 608-618: the head of `for n in instance_ids` up to the
\* delete request of the iteration, and the result when the ids are exhausted.
DeleteLoop ==
    /\ pc = "delete_loop"
    /\ IF idx > Len(params.instance_ids)
       THEN /\ exit_json([changed |-> changed, action |-> "delete", items |-> << >>,
                          instance_ids |-> << >>, id |-> volume_id])
            /\ UNCHANGED << lookups, idx, volume_id >>
       ELSE LET n == params.instance_ids[idx]
                r == get_resource_id(VolumeList, Str(n), "name")
            IN  /\ ResolveLocal("instance", n, r)
                /\ IF r.fail THEN fail_json(MsgFoundMore) /\ UNCHANGED << idx, volume_id >>
                   ELSE /\ volume_id' = r.id
                        /\ IF r.id = None
                           THEN idx' = idx + 1 /\ UNCHANGED << pc, result >>
                           ELSE IF DeleteGuard THEN CheckModeExit /\ UNCHANGED idx
                           ELSE pc' = "volumes_delete" /\ UNCHANGED << idx, result >>
    /\ UNCHANGED << program, params, calls, datacenter_id, names, volumes,
                    instance_ids, changed, server_id, created, create_response,
                    checked_instances >>

\* _delete_volume's `except Exception` swallowing the error.
DeleteExceptPass ==
    /\ changed' = TRUE
    /\ idx' = idx + 1
    /\ pc' = "delete_loop"
    /\ UNCHANGED result
\* _delete_volume, lines 430-431.
DeleteExcept == fail_json(MsgRemove) /\ UNCHANGED << changed, idx >>

\* _delete_volume, lines 428-429, and delete_volume, line 612.
VolumesDelete ==
    /\ pc = "volumes_delete"
    /\ \/ /\ Issue("datacenters_volumes_delete", volume_id, params.instance_ids[idx], TRUE)
          /\ DeleteExcept
       \/ /\ Issue("datacenters_volumes_delete", volume_id, params.instance_ids[idx], FALSE)
          /\ changed' = TRUE
          /\ idx' = idx + 1
          /\ pc' = "delete_loop"
          /\ UNCHANGED result
    /\ UNCHANGED << program, params, lookups, datacenter_id, names, volumes,
                    instance_ids, volume_id, server_id, created, create_response,
                    checked_instances >>

\* ------------------------------------------------- postgres_backup_info
\* main() of postgres_backup_info.py up to the first SDK call.
PostgresMain ==
    /\ pc = "main"
    /\ program = "postgres_backup_info"
    /\ IF check_required_arguments(params) # ""
       THEN fail_json(check_required_arguments(params))
       ELSE /\ pc' = IF ~Falsy(params.postgres_cluster)
                     THEN "clusters_get" ELSE "clusters_backups_get"
            /\ UNCHANGED result
    /\ UNCHANGED << program, params, calls, lookups, locals >>

\* `except Exception` of main(): fail_json('failed to retrieve ...').
PostgresExcept == fail_json(MsgRetrieve)

\* main(), lines 227-233: clusters_get and the cluster's lookup by id or
\* display_name.
ClustersGet ==
    /\ pc = "clusters_get"
    /\ \/ /\ Issue("clusters_get", None, params.postgres_cluster, TRUE)
          /\ PostgresExcept
          /\ UNCHANGED << lookups, volume_id >>
       \/ /\ Issue("clusters_get", None, params.postgres_cluster, FALSE)
          /\ LET r == get_resource_id(ClusterList, Str(params.postgres_cluster),
                                      "display_name")
             IN  /\ Resolve("postgres_cluster", params.postgres_cluster, r)
                 /\ IF r.fail THEN fail_json(MsgFoundMore) /\ UNCHANGED volume_id
                    ELSE /\ volume_id' = r.id
                         /\ pc' = "cluster_backups_get"
                         /\ UNCHANGED result
    /\ UNCHANGED << program, params, datacenter_id, names, idx, volumes,
                    instance_ids, changed, server_id, created, create_response,
                    checked_instances >>

\* The items the backups API returns for one cluster, and for all clusters.
cluster_backups_get(cluster_id) == SelectSeq(BackupList, LAMBDA b : b.cluster_id = cluster_id)
clusters_backups_get == BackupList

\* The results built by inserting each dict at the front of the list.
PostgresExitFront(backups) ==
    exit_json([changed |-> FALSE, action |-> "info",
               items |-> [i \in 1..Len(backups) |->
                              to_dict(backups[Len(backups) + 1 - i])],
               instance_ids |-> << >>, id |-> None])
\* main(), lines 240-243: one dict per backup, then exit_json(result=results).
PostgresExit(backups) ==
    exit_json([changed |-> FALSE, action |-> "info",
               items |-> [i \in 1..Len(backups) |-> to_dict(backups[i])],
               instance_ids |-> << >>, id |-> None])

\* main(), lines 235-236: the backups of the resolved cluster.
ClusterBackupsGet ==
    /\ pc = "cluster_backups_get"
    /\ \/ /\ Issue("cluster_backups_get", volume_id, params.postgres_cluster, TRUE)
          /\ PostgresExcept
       \/ /\ Issue("cluster_backups_get", volume_id, params.postgres_cluster, FALSE)
          /\ PostgresExit(cluster_backups_get(volume_id))
    /\ UNCHANGED << program, params, lookups, locals >>

\* main(), line 238: the backups of every cluster.
ClustersBackupsGet ==
    /\ pc = "clusters_backups_get"
    /\ \/ /\ Issue("clusters_backups_get", None, None, TRUE)
          /\ PostgresExcept
       \/ /\ Issue("clusters_backups_get", None, None, FALSE)
          /\ PostgresExit(clusters_backups_get)
    /\ UNCHANGED << program, params, lookups, locals >>

\* ------------------------------------------------------- specification
Next ==
    \/ VolumeMain
    \/ CreateVolume
    \/ CreateVolumesGet
    \/ CreateLoop
    \/ FindById
    \/ VolumesPost
    \/ CreateWait
    \/ ServersGet
    \/ ServersVolumesPost
    \/ UpdateVolume
    \/ UpdateVolumesGet
    \/ UpdateLoop
    \/ DeleteVolume
    \/ DeleteVolumesGet
    \/ DeleteLoop
    \/ VolumesDelete
    \/ PostgresMain
    \/ ClustersGet
    \/ ClusterBackupsGet
    \/ ClustersBackupsGet

Spec == Init /\ [][Next]_vars

\* ------------------------------------------- identity resolution alone
\* get_resource and get_resource_id applied to a resource list, an identity
\* and identity paths (the same code in volume.py and postgres_backup_info.py).
\* `params` holds the arguments, `result` what the function returned; a list
\* holds each id once, as the API's lists do.
ResolveIds == {"a", "b", "c"}
ResolveNames == {"a", "b"}
ResolveIdentities == {"a", "b", "z"}
\* identity_paths: None, or [['id'], ['properties', 'display_name']].
IdentityPathInputs == {None, "display_name"}
\* _get_matched_resources, lines 290-291: the default identity paths.
IdentityPath(identity_paths) ==
    IF identity_paths = None THEN "name" ELSE identity_paths
ResourcesAt(path) ==
    { IF path = "name" THEN Resource(i, n) ELSE Cluster(i, n) :
        i \in ResolveIds, n \in ResolveNames }
ResourceLists(path) ==
    { l \in SeqsUpTo(ResourcesAt(path), MaxList) :
        \A i, j \in 1..Len(l) : l[i].id = l[j].id => i = j }

InitResolve ==
    /\ program \in {"get_resource", "get_resource_id"}
    /\ \E paths \in IdentityPathInputs :
         params \in { [resource_list |-> l, identity |-> x, identity_paths |-> paths] :
                        l \in ResourceLists(IdentityPath(paths)),
                        x \in ResolveIdentities }
    /\ pc = "resolve"
    /\ calls = << >>
    /\ lookups = << >>
    /\ result = Running
    /\ datacenter_id = None
    /\ names = << >>
    /\ idx = 0
    /\ volumes = << >>
    /\ instance_ids = << >>
    /\ changed = FALSE
    /\ volume_id = None
    /\ server_id = None
    /\ created = FALSE
    /\ create_response = NoResource
    /\ checked_instances = << >>

\* get_resource(module, resource_list, identity, identity_paths).
GetResource ==
    /\ pc = "resolve"
    /\ program = "get_resource"
    /\ result' = get_resource(params.resource_list, Str(params.identity),
                              IdentityPath(params.identity_paths))
    /\ pc' = "done"
    /\ UNCHANGED << program, params, calls, lookups, locals >>

\* get_resource_id(module, resource_list, identity, identity_paths).
GetResourceId ==
    /\ pc = "resolve"
    /\ program = "get_resource_id"
    /\ result' = get_resource_id(params.resource_list, Str(params.identity),
                                 IdentityPath(params.identity_paths))
    /\ pc' = "done"
    /\ UNCHANGED << program, params, calls, lookups, locals >>

NextResolve ==
    \/ GetResource
    \/ GetResourceId

SpecResolve == InitResolve /\ [][NextResolve]_vars

\* ------------------------------------------------------------ the claims
Done == pc = "done"
Failed == Done /\ result.status = "failed"
Succeeded == Done /\ result.status = "ok"
Indexes(seq) == 1..Len(seq)
MutatingCalls == { j \in Indexes(calls) : calls[j].op \in Mutating }

\* _update_volume is entered from no reachable position: the model holds no
\* step for "update_put".
UpdatePutNeverEntered == pc # "update_put"

\* The lookups of an identity the user supplied.
UserKinds == {"datacenter", "instance", "server", "postgres_cluster"}

\* C1: whenever a user-supplied identity (datacenter, volume instance id,
\* server, Postgres cluster) matched no resource, the invocation ends in
\* failure and issued no SDK call after that lookup.
C1_UnmatchedIdentityFails ==
    Done =>
        \A i \in Indexes(lookups) :
            lookups[i].kind \in UserKinds /\ lookups[i].n = 0
                => result.status = "failed" /\ Len(calls) = lookups[i].at

\* C2: whenever an identity matched more than one resource, the invocation has
\* failed with the 'found more resources' message right at that lookup, and no
\* create, update, delete or attach request was issued for that identity.
C2_AmbiguousIdentityFails ==
    \A i \in Indexes(lookups) :
        lookups[i].n > 1
            => /\ Failed
               /\ result.msg = MsgFoundMore
               /\ Len(calls) = lookups[i].at
               /\ \A j \in MutatingCalls : calls[j].about # lookups[i].identity
\* An ambiguous instance met after an earlier instance was deleted.
C2_Witness ==
    /\ Done
    /\ \E i \in Indexes(lookups) : lookups[i].n > 1 /\ lookups[i].kind = "instance"
    /\ \E j \in MutatingCalls : ~calls[j].raised

\* C3: a successful update outside check mode issued one PUT per listed
\* volume, addressed to the resolved volume's id, and reports changed=true
\* with one entry per volume.
C3_UpdateIssuesPutPerVolume ==
    ( /\ program = "volume"
      /\ params.state = "update"
      /\ ~params.check_mode
      /\ Len(params.instance_ids) >= 1
      /\ Succeeded )
        => /\ Cardinality({ j \in Indexes(calls) :
                              calls[j].op = "datacenters_volumes_put" })
                = Len(params.instance_ids)
           /\ result.changed
           /\ Len(result.items) = Len(params.instance_ids)

\* C4: in check mode no mutating SDK request is issued.
C4_CheckModeIssuesNoMutation ==
    params.check_mode => MutatingCalls = {}

\* C5: every SDK call that raised left the invocation ended in failure with a
\* message; none is followed by a running or successful invocation.
C5_SdkExceptionsSurfaceAsFailure ==
    \A j \in Indexes(calls) :
        calls[j].raised => Failed /\ result.msg # ""
\* A delete request that raised after an earlier delete had succeeded.
C5_Witness ==
    /\ Failed
    /\ result.msg = MsgRemove
    /\ \E j \in Indexes(calls) :
           /\ calls[j].op = "datacenters_volumes_delete" /\ calls[j].raised
           /\ \E k \in 1..(j - 1) :
                  calls[k].op = "datacenters_volumes_delete" /\ ~calls[k].raised

\* C6: an SDK call that raised is the last SDK call of the invocation.
C6_NoRequestAfterRaise ==
    \A j \in Indexes(calls) : calls[j].raised => j = Len(calls)
\* An attach request raised with a volume already created and a name still to
\* process: nothing is retried, continued or rolled back.
C6_Witness ==
    /\ Done
    /\ Len(calls) >= 1
    /\ calls[Len(calls)].raised
    /\ calls[Len(calls)].op = "datacenters_servers_volumes_post"
    /\ \E k \in MutatingCalls : calls[k].op = "datacenters_volumes_post" /\ ~calls[k].raised
    /\ idx < Len(names)

\* C7: a successful invocation with wait=true followed every mutating request
\* by wait_for_completion with the configured wait_timeout; with wait=false it
\* never called wait_for_completion.
C7_WaitCoversEveryMutation ==
    (program = "volume" /\ Succeeded) =>
        IF params.wait
        THEN \A j \in MutatingCalls :
                /\ j < Len(calls)
                /\ calls[j + 1].op = "wait_for_completion"
                /\ calls[j + 1].timeout = params.wait_timeout
        ELSE \A j \in Indexes(calls) : calls[j].op # "wait_for_completion"

\* C8: in state present the result's 'volumes' and 'instance_ids' lists hold
\* count entries, for every count.
C8_HandledEqualsCount ==
    ( /\ program = "volume"
      /\ params.state = "present"
      /\ Succeeded
      /\ result.action = "create" )
        => /\ Len(result.items) = params.count
           /\ Len(result.instance_ids) = params.count

\* No usable credentials: no token, and no username or no password.
NoCredentials ==
    /\ params.token \in {None, ""}
    /\ params.username \in {None, ""} \/ params.password \in {None, ""}
\* The volume module's datacenter was not supplied: AnsibleModule rejects the
\* parameters before main() looks at them.
ParserRejects == program = "volume" /\ params.datacenter = None

\* C9 as stated: without usable credentials the invocation fails with the
\* 'Token or username & password are required' message and issues no request.
C9_NoCredentialsTokenMessage ==
    (NoCredentials /\ pc # "main")
        => Failed /\ result.msg = MsgCredentials /\ calls = << >>
\* C9: without usable credentials the invocation fails and issues no request,
\* in both modules and every state; the message is 'Token or username &
\* password are required' unless the volume module's datacenter is missing,
\* which the argument parser reports first.
C9_NoCredentialsFails ==
    (NoCredentials /\ pc # "main")
        => /\ Failed
           /\ calls = << >>
           /\ result.msg = IF ParserRejects THEN MsgMissingArguments
                           ELSE MsgCredentials
\* An empty token with a username and an empty password, in state absent.
C9_Witness ==
    /\ Failed
    /\ result.msg = MsgCredentials
    /\ params.state = "absent"
    /\ params.token = "" /\ params.username = "u" /\ params.password = ""

\* The options declared required for the state whose parameter is missing or
\* empty.
OptionNames == {"datacenter", "server", "name", "postgres_cluster"}
Unsupplied ==
    { o \in OptionNames : params.state \in Required(o) /\ params[o] \in {None, ""} }
FirstUnsupplied == IF "datacenter" \in Unsupplied THEN "datacenter" ELSE "name"

\* C10 as stated: a missing or empty required parameter makes the invocation
\* fail with '<option> parameter is required' before any SDK request; other
\* parameters never trigger that failure.
C10_RequiredParameterMessage ==
    (program = "volume" /\ pc # "main")
        => /\ Unsupplied # {}
                => /\ Failed
                   /\ calls = << >>
                   /\ \E o \in Unsupplied : result.msg = MsgRequired(o)
           /\ \A o \in OptionNames : result.msg = MsgRequired(o) => o \in Unsupplied
\* C10: a missing or empty required parameter makes the invocation fail before
\* any SDK request; the message is '<option> parameter is required', naming
\* the first such option in OPTIONS order, when usable credentials were given
\* and datacenter was supplied (missing credentials and a missing datacenter
\* are reported first, with their own messages); other parameters never
\* trigger that failure.
C10_RequiredParameterFails ==
    (program = "volume" /\ pc # "main")
        => /\ Unsupplied # {}
                => /\ Failed
                   /\ calls = << >>
                   /\ result.msg = IF ParserRejects THEN MsgMissingArguments
                                   ELSE IF NoCredentials THEN MsgCredentials
                                   ELSE MsgRequired(FirstUnsupplied)
           /\ \A o \in OptionNames : result.msg = MsgRequired(o) => o \in Unsupplied
\* State present with a datacenter and an empty name.
C10_Witness ==
    /\ Failed
    /\ params.state = "present"
    /\ params.datacenter = "Tardis"
    /\ params.name = ""
    /\ result.msg = MsgRequired("name")

\* The dicts postgres_backup_info is to return for a list of backups.
BackupDicts(backups) ==
    [i \in 1..Len(backups) |->
        [id |-> backups[i].id, cluster_id |-> backups[i].cluster_id]]
\* The ids of the clusters whose id or display name is the postgres_cluster
\* parameter.
NamedClusters ==
    { ClusterList[i].id : i \in { k \in Indexes(ClusterList) :
        params.postgres_cluster \in {ClusterList[k].id, ClusterList[k].display_name} } }
BackupsOfNamedClusters == SelectSeq(BackupList, LAMBDA b : b.cluster_id \in NamedClusters)
ReadOnly ==
    \A j \in Indexes(calls) :
        calls[j].op \in {"clusters_get", "cluster_backups_get", "clusters_backups_get"}

\* C11 as stated: postgres_backup_info is read-only and returns one dict per
\* backup in SDK order: of the cluster whose id or display name equals
\* postgres_cluster when the parameter is given, of all clusters when it is not.
C11_BackupsOfGivenCluster ==
    program = "postgres_backup_info"
        => /\ ReadOnly
           /\ Succeeded
                => result.items = BackupDicts(IF params.postgres_cluster # None
                                              THEN BackupsOfNamedClusters
                                              ELSE BackupList)
\* C11: postgres_backup_info is read-only and returns one dict per backup in
\* SDK order: of the single cluster whose id or display name equals
\* postgres_cluster when the parameter is given and not empty, of all clusters
\* when it is not given or is the empty string.
C11_BackupsOfNamedCluster ==
    program = "postgres_backup_info"
        => /\ ReadOnly
           /\ Succeeded
                => result.items = BackupDicts(IF ~(params.postgres_cluster \in {None, ""})
                                              THEN BackupsOfNamedClusters
                                              ELSE BackupList)
\* The cluster named by its display name: its two backups, and not the third.
C11_Witness ==
    /\ program = "postgres_backup_info"
    /\ Succeeded
    /\ params.postgres_cluster = "Main"
    /\ result.items = << [id |-> "b1", cluster_id |-> "pg1"],
                         [id |-> "b3", cluster_id |-> "pg1"] >>

\* The positions of the resources of the list whose id, or whose name at the
\* identity path in force, equals the identity.
MatchingPositions ==
    LET l == params.resource_list
        path == IF params.identity_paths = None THEN "name" ELSE "display_name"
    IN  { i \in Indexes(l) : l[i].id = params.identity \/ l[i][path] = params.identity }

\* C12: get_resource returns a resource r exactly when r is the only element
\* of the list whose id or name (at the default or the supplied identity path)
\* equals the identity, a resource matching on both counting once; it fails
\* exactly when several match; get_resource_id returns that resource's id, and
\* None when nothing matches.
C12_ResolutionReturnsOnlyMatch ==
    pc = "done" =>
        LET l == params.resource_list
            M == MatchingPositions
        IN  /\ result.fail <=> Cardinality(M) > 1
            /\ result.n = Cardinality(M)
            /\ program = "get_resource" =>
                 /\ \A i \in Indexes(l) : (result.resource = l[i]) <=> (M = {i})
                 /\ Cardinality(M) # 1 => result.resource = NoResource
            /\ program = "get_resource_id" =>
                 /\ \A i \in Indexes(l) : M = {i} => result.id = l[i].id
                 /\ Cardinality(M) # 1 => result.id = None
\* A cluster whose id and display name both equal the identity, resolved in a
\* list of two: one match, and its id returned.
C12_Witness ==
    /\ pc = "done"
    /\ program = "get_resource_id"
    /\ params.identity_paths = "display_name"
    /\ Len(params.resource_list) = 2
    /\ \E i \in Indexes(params.resource_list) :
           /\ params.resource_list[i].id = params.identity
           /\ params.resource_list[i].display_name = params.identity
           /\ MatchingPositions = {i}
           /\ result.id = params.resource_list[i].id
           /\ ~result.fail

====
